---------------------------- MODULE Spec2Model ----------------------------
(***************************************************************************)
(* Route planning of ProjectArjunaControl: RouteOptimizationService        *)
(* (src/ProjectArjunaControl/src/services/routeOptimizationService.ts).     *)
(*                                                                         *)
(* Numbers.  The service computes in IEEE doubles; the model computes in   *)
(* fixed point:                                                            *)
(*   coordinates   1e-4 degree        angles     1e-6 radian               *)
(*   cosines       1e-4               distances  metre                     *)
(*   times         1e-3 minute        efficiency 1e-2 percent              *)
(* A double that is not finite is one of the three values PosInf, NegInf,   *)
(* NaN, and the F... operators give the arithmetic and the comparisons of  *)
(* doubles on them (a comparison with NaN is false).                       *)
(***************************************************************************)
EXTENDS Integers, Sequences, FiniteSets, TLC

(***************************************************************************)
(* Bounds of the model.                                                    *)
(***************************************************************************)
MaxMissions == 3

(***************************************************************************)
(* Units.                                                                  *)
(***************************************************************************)
DegScale  == 10000      \* one degree, in coordinate units
RadScale  == 1000000    \* one radian, in angle units
CosScale  == 10000      \* 1.0 as a cosine
KmScale   == 1000       \* one kilometre, in distance units
MinScale  == 1000       \* one minute, in time units
EffScale  == 100        \* one percent, in efficiency units

(***************************************************************************)
(* Doubles that are not finite.                                            *)
(***************************************************************************)
PosInf == 2000000000
NegInf == -2000000000
NaN    == 2100000000

IsFinite(x) == x # PosInf /\ x # NegInf /\ x # NaN

FAdd(x, y) ==
  IF x = NaN \/ y = NaN THEN NaN
  ELSE IF x = PosInf THEN (IF y = NegInf THEN NaN ELSE PosInf)
  ELSE IF x = NegInf THEN (IF y = PosInf THEN NaN ELSE NegInf)
  ELSE IF y = PosInf \/ y = NegInf THEN y
  ELSE x + y

FSub(x, y) ==
  IF x = NaN \/ y = NaN THEN NaN
  ELSE IF y = PosInf THEN FAdd(x, NegInf)
  ELSE IF y = NegInf THEN FAdd(x, PosInf)
  ELSE FAdd(x, 0 - y)

FGt(x, y) ==
  IF x = NaN \/ y = NaN THEN FALSE
  ELSE IF x = y THEN FALSE
  ELSE IF x = PosInf \/ y = NegInf THEN TRUE
  ELSE IF x = NegInf \/ y = PosInf THEN FALSE
  ELSE x > y

FLt(x, y) == FGt(y, x)

FGe(x, y) == IF x = NaN \/ y = NaN THEN FALSE ELSE x = y \/ FGt(x, y)

\* Math.round of the quotient num/den of two finite numbers, den # 0:
\* the nearest integer, a half rounded up
RoundDiv(num, den) ==
  IF den > 0 THEN (2 * num + den) \div (2 * den)
  ELSE (2 * (0 - num) + (0 - den)) \div (2 * (0 - den))

\* a / b rounded towards zero (b > 0): the fixed-point operations round a
\* number and its negative alike, as the operations on doubles do
Quot(a, b) == IF a >= 0 THEN a \div b ELSE 0 - ((0 - a) \div b)

\* |a| * b / d without the intermediate product, for 0 <= b <= d, signed as a
MulDivAbs(a, b, d) == (a \div d) * b + ((a % d) * b) \div d
MulDiv(a, b, d) == IF a >= 0 THEN MulDivAbs(a, b, d) ELSE 0 - MulDivAbs(0 - a, b, d)

(***************************************************************************)
(* Math.sqrt, Math.sin, Math.cos, Math.atan2 in fixed point.               *)
(***************************************************************************)
RECURSIVE SqrtBits(_, _, _)
SqrtBits(n, r, bit) ==
  IF bit = 0 THEN r
  ELSE IF r + bit <= 46340 /\ (r + bit) * (r + bit) <= n THEN SqrtBits(n, r + bit, bit \div 2)
  ELSE SqrtBits(n, r, bit \div 2)

\* the integer square root: Sqrt(a) of a in 1e-12 units is in 1e-6 units
Sqrt(n) == SqrtBits(n, 0, 32768)

\* sin x = x - x^3/6 for the half differences of two coordinates
Sin(x) == x - Quot(((x * x) \div RadScale) * x, 6 * RadScale)

\* cos x = 1 - x^2/2 (1 - x^2/12 (1 - x^2/30 (1 - x^2/56))), |x| <= pi/2
Cos(x) ==
  LET x4 == Quot(x, 100)
      y  == (x4 * x4) \div CosScale
      t4 == CosScale - y \div 56
      t3 == CosScale - ((y * t4) \div CosScale) \div 30
      t2 == CosScale - ((y * t3) \div CosScale) \div 12
  IN  CosScale - ((y * t2) \div CosScale) \div 2

\* Math.sqrt(1 - a) for a in 1e-12 units: 1 - a/2 - a^2/8
SqrtOneMinus(a) ==
  LET h == a \div (2 * RadScale)
  IN  RadScale - h - (h * h) \div (2 * RadScale)

\* atan2(y, x) for 0 <= y < x: atan t = t - t^3/3 + t^5/5, t = y/x
Atan2(y, x) ==
  LET t  == y + (y * (RadScale - x)) \div x
      t2 == (t * t) \div RadScale
      t3 == (t2 * t) \div RadScale
      t5 == (t2 * t3) \div RadScale
  IN  t - t3 \div 3 + t5 \div 5

(***************************************************************************)
(* Geodesy.                                                                *)
(***************************************************************************)
EARTH_RADIUS == 6371
DEFAULT_DRONE_SPEED == 60
BASE_LOCATION == [latitude |-> 407128, longitude |-> -740060]

\* degrees * (Math.PI / 180), Math.PI / 180 = 0.017453
toRadians(degrees) == MulDiv(degrees, 17453, DegScale)

\* the haversine distance with the cosine of the first latitude for both
calculateDistanceOneLatitude(coord1, coord2) ==
  LET dLat == toRadians(coord2.latitude - coord1.latitude)
      dLon == toRadians(coord2.longitude - coord1.longitude)
      sLat == Sin(Quot(dLat, 2))
      sLon == Sin(Quot(dLon, 2))
      cc   == (Cos(toRadians(coord1.latitude)) * Cos(toRadians(coord1.latitude)))
                \div CosScale
      a    == sLat * sLat + MulDiv(sLon * sLon, cc, CosScale)
      c    == 2 * Atan2(Sqrt(a), SqrtOneMinus(a))
  IN  (EARTH_RADIUS * c) \div (RadScale \div KmScale)

\* the haversine distance, in metres
calculateDistance(coord1, coord2) ==
  LET dLat == toRadians(coord2.latitude - coord1.latitude)
      dLon == toRadians(coord2.longitude - coord1.longitude)
      sLat == Sin(Quot(dLat, 2))
      sLon == Sin(Quot(dLon, 2))
      cc   == (Cos(toRadians(coord1.latitude)) * Cos(toRadians(coord2.latitude)))
                \div CosScale
      a    == sLat * sLat + MulDiv(sLon * sLon, cc, CosScale)
      c    == 2 * Atan2(Sqrt(a), SqrtOneMinus(a))
  IN  (EARTH_RADIUS * c) \div (RadScale \div KmScale)

\* Math.sin of a latitude, in cosine units: sin x = cos(pi/2 - x)
SinLatitude(x) == Cos(1570796 - x)

\* Math.atan(t) for 0 <= t <= 1, t and the angle in 1e-4 units:
\* (pi/4) t + t (1 - t) (0.2447 + 0.0663 t), exact to 0.1 degree
Atan(t) ==
  (7854 * t) \div CosScale
    + (((t * (CosScale - t)) \div CosScale) * (2447 + (663 * t) \div CosScale))
        \div CosScale

Abs(x) == IF x >= 0 THEN x ELSE 0 - x

\* Math.atan2(y, x) over the four quadrants, in 1e-4 radians
Atan2Full(y, x) ==
  LET ay == Abs(y)
      ax == Abs(x)
      first == IF ax = 0 /\ ay = 0 THEN 0
               ELSE IF ax >= ay THEN Atan((ay * CosScale) \div ax)
               ELSE 15708 - Atan((ax * CosScale) \div ay)
      upper == IF x < 0 THEN 31416 - first ELSE first
  IN  IF y < 0 THEN 0 - upper ELSE upper

\* radians * (180 / Math.PI): 1e-4 radians to 1e-2 degrees
toDegrees(radians) == Quot(radians * 57296, 10 * CosScale)

\* the initial bearing (lines 331-341), in 1e-2 degrees.  y and x are in 1e-6
\* units; x, the difference of two products that the doubles carry to
\* 1e-16, is taken in the equal form
\* sin(lat2 - lat1) + sin lat1 cos lat2 (1 - cos dLon), 1 - cos d = 2 sin^2 (d/2)
calculateBearing(from, to) ==
  LET dLon == toRadians(to.longitude - from.longitude)
      lat1 == toRadians(from.latitude)
      lat2 == toRadians(to.latitude)
      y == MulDiv(Sin(dLon), Cos(lat2), CosScale)
      h == Sin(Quot(dLon, 2))
      versine == (2 * h * h) \div RadScale
      x == Sin(lat2 - lat1)
             + (versine * ((SinLatitude(lat1) * Cos(lat2)) \div CosScale)) \div CosScale
      bearing == Atan2Full(y, x)
  IN  (toDegrees(bearing) + 36000) % 36000

directions == <<"N", "NE", "E", "SE", "S", "SW", "W", "NW">>

\* lines 347-351
bearingToDirection(bearing) ==
  LET index == RoundDiv(bearing, 4500) % 8
  IN  directions[index + 1]

(***************************************************************************)
(* Inputs: the caller's missions and drone specifications.                 *)
(***************************************************************************)
Offset(dLat, dLon) ==
  [latitude |-> BASE_LOCATION.latitude + dLat,
   longitude |-> BASE_LOCATION.longitude + dLon]

North == Offset(1000, 0)      \* 11 km north of the base
South == Offset(-1000, 0)     \* 11 km south of the base
East  == Offset(0, 3000)      \* 25 km east of the base
Far   == Offset(6000, 0)      \* 67 km north of the base

TargetLocations == {North, South, East, Far}

\* the location and the priority of a mission
MissionChoices ==
  {<<North, "low">>, <<North, "emergency">>, <<South, "low">>, <<South, "medium">>,
   <<East, "emergency">>, <<Far, "low">>, <<Far, "emergency">>}

\* maxRange in metres, maxFlightTime in 1e-3 minutes, speed in km/h,
\* batteryCapacity in percent
Specs(maxRange, maxFlightTime, speed, batteryCapacity) ==
  [maxRange |-> maxRange * KmScale, maxFlightTime |-> maxFlightTime * MinScale,
   speed |-> speed, batteryCapacity |-> batteryCapacity]

\* the default of optimizeRoute (lines 91-96)
DefaultDroneSpecs == Specs(50, 120, DEFAULT_DRONE_SPEED, 100)

DroneSpecsChoices ==
  {DefaultDroneSpecs, Specs(50, 25, 60, 50), Specs(30, 120, 30, 100),
   Specs(50, 0, 60, 100), Specs(50, 120, 0, 100), Specs(0, 120, 60, 100),
   Specs(50, 27, 60, 100)}

Locations == TargetLocations \cup {BASE_LOCATION}

MissionIds == <<"m1", "m2", "m3", "m4", "m5", "m6">>

\* the mission lists of n missions, of pairwise distinct ids
MissionLists(n) ==
  {[i \in 1..n |-> [id |-> MissionIds[i], target_location |-> f[i][1], priority |-> f[i][2]]] :
     f \in [1..n -> MissionChoices]}

MissionInputs == UNION {MissionLists(n) : n \in 0..MaxMissions}

(***************************************************************************)
(* The distances of the locations of a planning call, computed once.       *)
(***************************************************************************)
DistanceTable ==
  [c1 \in Locations |-> [c2 \in Locations |-> calculateDistance(c1, c2)]]

Distance(c1, c2) == DistanceTable[c1][c2]

\* the bearings between the locations of a planning call, computed once
BearingTable ==
  [from \in Locations |-> [to \in Locations |-> calculateBearing(from, to)]]

Bearing(from, to) == BearingTable[from][to]

(***************************************************************************)
(* Waypoints.                                                              *)
(***************************************************************************)
Undefined == "undefined"

getPriorityValue(priority) ==
  CASE priority = "emergency" -> 4
    [] priority = "high" -> 3
    [] priority = "medium" -> 2
    [] priority = "low" -> 1
    [] OTHER -> 1

baseWaypoint ==
  [id |-> "base", coordinate |-> BASE_LOCATION, missionId |-> Undefined,
   type |-> "base", priority |-> 0]

missionsToWaypoints(missions) ==
  <<baseWaypoint>> \o
  [i \in 1..Len(missions) |->
     [id |-> missions[i].id, coordinate |-> missions[i].target_location,
      missionId |-> missions[i].id, type |-> "delivery",
      priority |-> getPriorityValue(missions[i].priority)]]

\* array.filter
RECURSIVE FilterType(_, _)
FilterType(ws, keep) ==
  IF ws = <<>> THEN <<>>
  ELSE (IF keep[Head(ws).type] THEN <<Head(ws)>> ELSE <<>>)
         \o FilterType(Tail(ws), keep)

NotBase == [base |-> FALSE, delivery |-> TRUE, waypoint |-> TRUE]
IsDelivery == [base |-> FALSE, delivery |-> TRUE, waypoint |-> FALSE]

\* array.splice(0, 1): the first element goes, whatever the index
RemoveFirst(seq, index) == Tail(seq)

\* no splice: the array as it was
RemoveNone(seq, index) == seq

\* array.splice(index, 1)
RemoveAt(seq, index) ==
  [i \in 1..(Len(seq) - 1) |-> IF i < index THEN seq[i] ELSE seq[i + 1]]

(***************************************************************************)
(* Route construction: one pass of the while loop of                       *)
(* nearestNeighborWithPriority.                                            *)
(***************************************************************************)
\* (distance / speed) * 60: the minutes of a leg, in 1e-3 minutes for a
\* distance in metres
LegTime(distance, speed) ==
  IF speed = 0 THEN (IF distance = 0 THEN NaN ELSE PosInf)
  ELSE IF speed > 0 THEN (distance * 60) \div speed
  ELSE 0 - ((distance * 60) \div (0 - speed))

DeliveryTime == 5 * MinScale

PriorityCeiling == 6

\* the test of lines 143-149 with the delivery time added to the sum
CannotReturnWithDwell(waypoint, currentPosition, base, elapsed, droneSpecs) ==
  LET distance == Distance(currentPosition.coordinate, waypoint.coordinate)
      time == LegTime(distance, droneSpecs.speed)
      returnDistance == Distance(waypoint.coordinate, base.coordinate)
      returnTime == LegTime(returnDistance, droneSpecs.speed)
  IN  FGt(FAdd(FAdd(FAdd(elapsed, time), DeliveryTime), returnTime),
          droneSpecs.maxFlightTime)

\* the test of lines 143-149: the waypoint is skipped
CannotReturn(waypoint, currentPosition, base, elapsed, droneSpecs) ==
  LET distance == Distance(currentPosition.coordinate, waypoint.coordinate)
      time == LegTime(distance, droneSpecs.speed)
      returnDistance == Distance(waypoint.coordinate, base.coordinate)
      returnTime == LegTime(returnDistance, droneSpecs.speed)
  IN  FGt(FAdd(FAdd(elapsed, time), returnTime), droneSpecs.maxFlightTime)

\* the score of the nearest neighbour, without the priority
ScoreNearest(waypoint, currentPosition) ==
  Distance(currentPosition.coordinate, waypoint.coordinate)

\* the score with the priority itself for the weight
ScoreLowFirst(waypoint, currentPosition) ==
  LET distance == Distance(currentPosition.coordinate, waypoint.coordinate)
      priorityWeight == waypoint.priority
  IN  distance * priorityWeight

Score(waypoint, currentPosition) ==
  LET distance == Distance(currentPosition.coordinate, waypoint.coordinate)
      priorityWeight == PriorityCeiling - waypoint.priority
  IN  distance * priorityWeight

\* the for loop with score <= bestScore for the test of line 156: of the
\* waypoints of one score the last is kept
RECURSIVE ScanUnvisitedLast(_, _, _, _, _, _, _, _)
ScanUnvisitedLast(unv, i, bestNext, bestScore, currentPosition, base, elapsed, droneSpecs) ==
  IF i > Len(unv) THEN bestNext
  ELSE IF CannotReturn(unv[i], currentPosition, base, elapsed, droneSpecs)
  THEN ScanUnvisitedLast(unv, i + 1, bestNext, bestScore, currentPosition, base,
                         elapsed, droneSpecs)
  ELSE LET score == Score(unv[i], currentPosition)
       IN  IF ~FGt(score, bestScore)
           THEN ScanUnvisitedLast(unv, i + 1, i, score, currentPosition, base,
                                  elapsed, droneSpecs)
           ELSE ScanUnvisitedLast(unv, i + 1, bestNext, bestScore, currentPosition,
                                  base, elapsed, droneSpecs)

\* the for loop of lines 139-160 from index i on: the index in unvisited of
\* bestNext, 0 for null
RECURSIVE ScanUnvisited(_, _, _, _, _, _, _, _)
ScanUnvisited(unv, i, bestNext, bestScore, currentPosition, base, elapsed, droneSpecs) ==
  IF i > Len(unv) THEN bestNext
  ELSE IF CannotReturn(unv[i], currentPosition, base, elapsed, droneSpecs)
  THEN ScanUnvisited(unv, i + 1, bestNext, bestScore, currentPosition, base,
                     elapsed, droneSpecs)
  ELSE LET score == Score(unv[i], currentPosition)
       IN  IF FLt(score, bestScore)
           THEN ScanUnvisited(unv, i + 1, i, score, currentPosition, base,
                              elapsed, droneSpecs)
           ELSE ScanUnvisited(unv, i + 1, bestNext, bestScore, currentPosition,
                              base, elapsed, droneSpecs)

BestNext(unv, currentPosition, base, elapsed, droneSpecs) ==
  ScanUnvisited(unv, 1, 0, PosInf, currentPosition, base, elapsed, droneSpecs)

\* the elapsed time after flying the leg to bestNext (line 169)
AdvanceTime(elapsed, time) == FAdd(elapsed, time)

\* the route returned as the loop left it
LeaveOpen(r, base) == r

\* lines 177-180
CloseRoute(r, base) ==
  IF Len(r) > 1 /\ r[Len(r)].type # "base" THEN Append(r, base) ELSE r

(***************************************************************************)
(* Route metrics.                                                          *)
(***************************************************************************)
\* the totalDistance of a loop that stops one leg early, in metres
RECURSIVE SumDistanceOpen(_, _)
SumDistanceOpen(ws, i) ==
  IF i >= Len(ws) - 1 THEN 0
  ELSE Distance(ws[i].coordinate, ws[i + 1].coordinate) + SumDistanceOpen(ws, i + 1)

\* the totalDistance of the loop of lines 193-207, in metres
RECURSIVE SumDistance(_, _)
SumDistance(ws, i) ==
  IF i >= Len(ws) THEN 0
  ELSE Distance(ws[i].coordinate, ws[i + 1].coordinate) + SumDistance(ws, i + 1)

\* the totalTime of the loop without the delivery time of lines 204-206
RECURSIVE SumTimeTravel(_, _, _, _, _)
SumTimeTravel(ws, i, k, acc, speed) ==
  IF i >= k THEN acc
  ELSE LET distance == Distance(ws[i].coordinate, ws[i + 1].coordinate)
           time == LegTime(distance, speed)
       IN  SumTimeTravel(ws, i + 1, k, FAdd(acc, time), speed)

\* the totalTime of the loop of lines 193-207 over the legs i..k-1, added
\* to acc
RECURSIVE SumTime(_, _, _, _, _)
SumTime(ws, i, k, acc, speed) ==
  IF i >= k THEN acc
  ELSE LET distance == Distance(ws[i].coordinate, ws[i + 1].coordinate)
           time == LegTime(distance, speed)
           flown == FAdd(acc, time)
       IN  SumTime(ws, i + 1, k,
                   IF ws[i + 1].type = "delivery" THEN FAdd(flown, DeliveryTime)
                   ELSE flown,
                   speed)

\* (deliveryWaypoints / deliveryWaypoints) * 100 without the test
\* deliveryWaypoints > 0: 0 / 0 for a route with no delivery
EfficiencyUnguarded(deliveryWaypoints) ==
  IF deliveryWaypoints = 0 THEN NaN
  ELSE RoundDiv(deliveryWaypoints * 100 * EffScale, deliveryWaypoints)

\* (deliveryWaypoints / 1) * 100: the division by the count left out
EfficiencyUndivided(deliveryWaypoints) ==
  IF deliveryWaypoints > 0 THEN deliveryWaypoints * 100 * EffScale
  ELSE 100 * EffScale

\* lines 210-212, in 1e-2 percent after the rounding of line 223
Efficiency(deliveryWaypoints) ==
  IF deliveryWaypoints > 0
  THEN RoundDiv(deliveryWaypoints * 100 * EffScale, deliveryWaypoints)
  ELSE 100 * EffScale

\* x * batteryCapacity for an infinite x
InfTimes(x, batteryCapacity) ==
  IF batteryCapacity = 0 THEN NaN
  ELSE IF batteryCapacity > 0 THEN x
  ELSE IF x = PosInf THEN NegInf ELSE PosInf

\* Math.round((totalTime / maxFlightTime) * batteryCapacity), without the
\* Math.min of line 215
FuelConsumptionUncapped(totalTime, droneSpecs) ==
  IF IsFinite(totalTime) /\ droneSpecs.maxFlightTime # 0
  THEN RoundDiv(totalTime * droneSpecs.batteryCapacity, droneSpecs.maxFlightTime)
  ELSE IF totalTime = 0 THEN NaN ELSE PosInf

\* Math.round(Math.min((totalTime / maxFlightTime) * batteryCapacity, 100))
FuelConsumption(totalTime, droneSpecs) ==
  LET max == droneSpecs.maxFlightTime
      bat == droneSpecs.batteryCapacity
      capped(x) == IF x = NaN THEN NaN ELSE IF x = PosInf THEN 100 ELSE x
  IN  IF totalTime = NaN THEN NaN
      ELSE IF max = 0
      THEN (IF totalTime = 0 THEN NaN
            ELSE capped(InfTimes(IF FGt(totalTime, 0) THEN PosInf ELSE NegInf, bat)))
      ELSE IF ~IsFinite(totalTime)
      THEN capped(InfTimes(IF (totalTime = PosInf) = (max > 0) THEN PosInf ELSE NegInf,
                           bat))
      ELSE IF RoundDiv(totalTime * bat, max) >= 100 THEN 100
      ELSE RoundDiv(totalTime * bat, max)

\* Math.round(totalTime), in 1e-3 minutes
RoundMinutes(t) == IF IsFinite(t) THEN RoundDiv(t, MinScale) * MinScale ELSE t

\* Math.round(totalDistance * 100), the division by 100 left out
RoundTimesHundred(d) == RoundDiv(d, KmScale \div 100) * KmScale

\* Math.round(totalDistance * 100) / 100, in metres
RoundCentiKm(d) == RoundDiv(d, KmScale \div 100) * (KmScale \div 100)

calculateRouteMetrics(waypoints, droneSpecs) ==
  LET totalDistance == SumDistance(waypoints, 1)
      totalTime == SumTime(waypoints, 1, Len(waypoints), 0, droneSpecs.speed)
      deliveryWaypoints == Len(FilterType(waypoints, IsDelivery))
  IN  [totalDistance |-> RoundCentiKm(totalDistance),
       totalTime |-> RoundMinutes(totalTime),
       efficiency |-> Efficiency(deliveryWaypoints),
       fuelConsumption |-> FuelConsumption(totalTime, droneSpecs)]

\* lines 113-116
RouteOf(optimizedWaypoints, metrics) ==
  [waypoints |-> optimizedWaypoints,
   totalDistance |-> metrics.totalDistance,
   totalTime |-> metrics.totalTime,
   efficiency |-> metrics.efficiency,
   fuelConsumption |-> metrics.fuelConsumption]

\* the early return with an efficiency of 0
EarlyRouteZero(waypoints) ==
  [waypoints |-> waypoints, totalDistance |-> 0, totalTime |-> 0,
   efficiency |-> 0, fuelConsumption |-> 0]

\* lines 100-108
EarlyRoute(waypoints) ==
  [waypoints |-> waypoints, totalDistance |-> 0, totalTime |-> 0,
   efficiency |-> 100 * EffScale, fuelConsumption |-> 0]

(***************************************************************************)
(* Array.prototype.sort with a comparator that subtracts two keys: a       *)
(* stable sort, a before b when compare(a, b) < 0; a NaN result is no      *)
(* order.  descending: compare(a, b) = key(b) - key(a), otherwise          *)
(* compare(a, b) = key(a) - key(b).                                        *)
(***************************************************************************)
Before(x, y, descending) ==
  IF descending THEN FLt(FSub(y.key, x.key), 0) ELSE FLt(FSub(x.key, y.key), 0)

\* x put into the sorted seq after every element it is not before
RECURSIVE InsertSorted(_, _, _)
InsertSorted(x, seq, descending) ==
  IF seq = <<>> THEN <<x>>
  ELSE IF Before(x, seq[Len(seq)], descending)
  THEN Append(InsertSorted(x, SubSeq(seq, 1, Len(seq) - 1), descending), seq[Len(seq)])
  ELSE Append(seq, x)

RECURSIVE SortPrefix(_, _, _)
SortPrefix(keyed, n, descending) ==
  IF n = 0 THEN <<>>
  ELSE InsertSorted(keyed[n], SortPrefix(keyed, n - 1, descending), descending)

StableSort(items, keys, descending) ==
  LET keyed == [i \in DOMAIN items |-> [key |-> keys[i], item |-> items[i]]]
      sorted == SortPrefix(keyed, Len(items), descending)
  IN  [i \in DOMAIN items |-> sorted[i].item]

\* lines 236-238: by getPriorityValue(b.priority) - getPriorityValue(a.priority)
prioritySorted(missions) ==
  StableSort(missions,
             [i \in DOMAIN missions |-> getPriorityValue(missions[i].priority)],
             TRUE)

\* lines 251-257: by distanceA - distanceB
sortByDistanceFromBase(missions) ==
  StableSort(missions,
             [i \in DOMAIN missions |->
                Distance(BASE_LOCATION, missions[i].target_location)],
             FALSE)

\* line 248: by b.efficiency - a.efficiency
SortByEfficiency(rs) ==
  StableSort(rs, [i \in DOMAIN rs |-> rs[i].efficiency], TRUE)

\* the mission list of the n-th strategy of generateRouteOptions
StrategyInput(n, missions) ==
  CASE n = 1 -> prioritySorted(missions)
    [] n = 2 -> sortByDistanceFromBase(missions)
    [] OTHER -> missions

(***************************************************************************)
(* Validation.                                                             *)
(***************************************************************************)
\* validateRoute with >= for >
validateRouteInclusive(route, droneSpecs) ==
  LET issues ==
        (IF FGe(route.totalDistance, droneSpecs.maxRange)
         THEN <<"distance">> ELSE <<>>)
        \o (IF FGe(route.totalTime, droneSpecs.maxFlightTime)
            THEN <<"time">> ELSE <<>>)
        \o (IF FGe(route.fuelConsumption, droneSpecs.batteryCapacity)
            THEN <<"fuel">> ELSE <<>>)
  IN  [valid |-> Len(issues) = 0, issues |-> issues]

validateRoute(route, droneSpecs) ==
  LET issues ==
        (IF FGt(route.totalDistance, droneSpecs.maxRange)
         THEN <<"distance">> ELSE <<>>)
        \o (IF FGt(route.totalTime, droneSpecs.maxFlightTime)
            THEN <<"time">> ELSE <<>>)
        \o (IF FGt(route.fuelConsumption, droneSpecs.batteryCapacity)
            THEN <<"fuel">> ELSE <<>>)
  IN  [valid |-> Len(issues) = 0, issues |-> issues]

\* the two objects passed to validateRoute as the call leaves them, had it
\* cut the route's totals down to the limits it tests them against
ValidatedArgumentsClamped(route, droneSpecs) ==
  [route |-> [route EXCEPT
                !.totalTime = IF FGt(@, droneSpecs.maxFlightTime)
                              THEN droneSpecs.maxFlightTime ELSE @],
   droneSpecs |-> droneSpecs]

\* the two objects passed to validateRoute as the call leaves them: lines
\* 260-282 read their fields and assign to none
ValidatedArguments(route, droneSpecs) ==
  [route |-> route, droneSpecs |-> droneSpecs]

(***************************************************************************)
(* Navigation: arrival times and instructions.                             *)
(***************************************************************************)
\* one minute of a Date, whose unit is the millisecond
MillisPerMinute == 60000

\* (travelTime + deliveryTime) * 60000 for times in 1e-3 minutes
Millis(minutes) == minutes * (MillisPerMinute \div MinScale)

\* the loop of lines 289-302 from index i on, at currentTime
RECURSIVE ArrivalTimesFrom(_, _, _)
ArrivalTimesFrom(ws, i, currentTime) ==
  IF i > Len(ws) THEN <<>>
  ELSE IF i < Len(ws)
  THEN LET distance == Distance(ws[i].coordinate, ws[i + 1].coordinate)
           travelTime == LegTime(distance, DEFAULT_DRONE_SPEED)
           deliveryTime == IF ws[i + 1].type = "delivery" THEN DeliveryTime ELSE 0
       IN  <<currentTime>>
             \o ArrivalTimesFrom(ws, i + 1, currentTime + Millis(travelTime + deliveryTime))
  ELSE <<currentTime>>

\* the Dates are milliseconds since the start of the day
calculateArrivalTimes(route, startTime) == ArrivalTimesFrom(route.waypoints, 1, startTime)

\* distance.toFixed(1): tenths of a kilometre
ToFixed1(distance) == RoundDiv(distance, KmScale \div 10)

\* lines 317-325 without the branch of the base
DeliveryInstruction(current, next) ==
  LET distance == Distance(current.coordinate, next.coordinate)
      bearing == Bearing(current.coordinate, next.coordinate)
  IN  IF next.type = "delivery"
      THEN <<[verb |-> "Proceed", distance |-> ToFixed1(distance),
              direction |-> bearingToDirection(bearing),
              destination |-> "delivery point", id |-> next.id]>>
      ELSE <<>>

\* lines 312-325: the instructions pushed for the leg from current to next.
\* A string `Proceed 11.1km N to delivery point m1` or `Return 11.1km S to
\* base` is the record of its parts.
NavigationInstruction(current, next) ==
  LET distance == Distance(current.coordinate, next.coordinate)
      bearing == Bearing(current.coordinate, next.coordinate)
  IN  IF next.type = "delivery"
      THEN <<[verb |-> "Proceed", distance |-> ToFixed1(distance),
              direction |-> bearingToDirection(bearing),
              destination |-> "delivery point", id |-> next.id]>>
      ELSE IF next.type = "base"
      THEN <<[verb |-> "Return", distance |-> ToFixed1(distance),
              direction |-> bearingToDirection(bearing),
              destination |-> "base", id |-> Undefined]>>
      ELSE <<>>

RECURSIVE InstructionsFrom(_, _)
InstructionsFrom(ws, i) ==
  IF i >= Len(ws) THEN <<>>
  ELSE NavigationInstruction(ws[i], ws[i + 1]) \o InstructionsFrom(ws, i + 1)

generateNavigationInstructions(route) == InstructionsFrom(route.waypoints, 1)

\* new Date() of the caller, in milliseconds since the start of the day
StartTimes == {0, 30 * MillisPerMinute}

(***************************************************************************)
(* The calls of a caller: generateRouteOptions(missions, droneSpecs),      *)
(* followed by validateRoute, or by generateNavigationInstructions and     *)
(* calculateArrivalTimes, on one of the returned routes, or by another     *)
(* planning call.                                                          *)
(*   entry             the planning function the caller has called         *)
(*   pc = "options"    in generateRouteOptions, strategy strategies done   *)
(*   pc = "loop"       in the while loop of nearestNeighborWithPriority    *)
(*   pc = "done"       the planning call has returned options              *)
(*   pc = "validated"  validateRoute has returned validation, and          *)
(*                     handleDeployRoute has shown the dialog alert        *)
(*   pc = "deployed"   the deployment was confirmed                        *)
(*   pc = "rendered"   generateNavigationInstructions and                  *)
(*                     calculateArrivalTimes have returned                 *)
(*   first             the inputs and the results of the first call        *)
(***************************************************************************)
VARIABLES missions, droneSpecs, pc, strategy, waypoints, unvisited, route,
          currentPosition, totalTime, totalDistance, routes, options,
          selectedRouteIndex, validation, instructions, startTime,
          arrivalTimes, entry, first, alert,
          storage, calls, sync, handed, queued

vars == <<missions, droneSpecs, pc, strategy, waypoints, unvisited, route,
          currentPosition, totalTime, totalDistance, routes, options,
          selectedRouteIndex, validation, instructions, startTime,
          arrivalTimes, entry, first, alert,
          storage, calls, sync, handed, queued>>

locals == <<waypoints, unvisited, route, currentPosition, totalTime, totalDistance>>

\* what the functions called on a returned route have returned, and the
\* dialog the screen shows
outputs == <<selectedRouteIndex, validation, instructions, startTime, arrivalTimes,
             alert>>

\* the variables of the offline queue of OfflineDataManager
offline == <<storage, calls, sync, handed, queued>>

\* the variables of the planning calls and of the route screen
planning == <<missions, droneSpecs, pc, strategy, locals, routes, options, outputs,
              entry, first>>

NoValidation == [valid |-> FALSE, issues |-> <<"none">>]

\* no dialog on the screen
NoAlert == "none"

\* the bounds of the offline queue: the calls of queueOfflineAction, one
\* for each action, and the runs of processOfflineQueue
MaxActions == 3
MaxSyncs == 2

\* AsyncStorage.getItem of a key that has no value
Null == [null |-> TRUE]

\* JSON.stringify of a queue and JSON.parse of the text: the text is not
\* the queue, and a text, the text of the empty queue too, is truthy
JSONstringify(value) == [json |-> value]
JSONparse(text) == text.json

\* the types of an offline action (line 154)
ActionTypes == <<"create_mission", "update_mission", "add_log">>

\* the action passed to the a-th call of queueOfflineAction
OfflineAction(a) ==
  [type |-> ActionTypes[((a - 1) % Len(ActionTypes)) + 1], data |-> a, timestamp |-> a]

NoCall == [missions |-> <<>>, droneSpecs |-> DefaultDroneSpecs,
           routes |-> <<>>, options |-> <<>>, made |-> FALSE]

\* the state before the first call, but for its inputs
InitCall ==
  /\ pc = "options"
  /\ entry = "generateRouteOptions"
  /\ strategy = 0
  /\ waypoints = <<>>
  /\ unvisited = <<>>
  /\ route = <<>>
  /\ currentPosition = baseWaypoint
  /\ totalTime = 0
  /\ totalDistance = 0
  /\ routes = <<>>
  /\ options = <<>>
  /\ selectedRouteIndex = 0
  /\ validation = NoValidation
  /\ instructions = <<>>
  /\ startTime = 0
  /\ arrivalTimes = <<>>
  /\ first = NoCall
  /\ alert = NoAlert

\* nothing under the key of the queue, no call of queueOfflineAction made
\* and no run of processOfflineQueue
OfflineInit ==
  /\ storage = Null
  /\ calls = [a \in 1..MaxActions |-> [pc |-> "idle", existingQueue |-> Null]]
  /\ sync = [pc |-> "idle", queue |-> <<>>, next |-> 1, runs |-> 0]
  /\ handed = <<>>
  /\ queued = <<>>

Init ==
  /\ missions \in MissionInputs
  /\ droneSpecs \in DroneSpecsChoices
  /\ InitCall
  /\ OfflineInit

\* waypoints.find(w => w.type === 'base')
FindBase(ws) == ws[CHOOSE i \in DOMAIN ws :
                     ws[i].type = "base" /\ \A j \in 1..(i - 1) : ws[j].type # "base"]

\* totalTime a variable that outlives the call: it starts from the value
\* the last construction left
KeptTotalTime(left) == left

\* let totalTime = 0 (line 132): a local of the call, whatever the last
\* construction left
NewTotalTime(left) == 0

\* the caller's list after a strategy that sorts the list itself
SortedInPlace(n, list) == StrategyInput(n, list)

\* the caller's list after the n-th strategy has made its list: the two
\* sorts are of the copy [...missions] (lines 236 and 252), and line 246
\* passes the list on
CallerList(n, list) == list

\* optimizeRoute of the next strategy's list, up to the first test of the
\* while loop (lines 98-133)
OptimizeRoute ==
  /\ pc = "options"
  /\ strategy < 3
  /\ LET wps == missionsToWaypoints(StrategyInput(strategy + 1, missions))
     IN  IF Len(wps) <= 1
         THEN /\ routes' = Append(routes, EarlyRoute(wps))
              /\ strategy' = strategy + 1
              /\ UNCHANGED <<pc, locals>>
         ELSE /\ waypoints' = wps
              /\ unvisited' = FilterType(wps, NotBase)
              /\ route' = <<FindBase(wps)>>
              /\ currentPosition' = FindBase(wps)
              /\ totalTime' = NewTotalTime(totalTime)
              /\ totalDistance' = 0
              /\ pc' = "loop"
              /\ UNCHANGED <<routes, strategy>>
  /\ missions' = CallerList(strategy + 1, missions)
  /\ UNCHANGED <<droneSpecs, options, outputs, entry, first, offline>>

LoopGuard == Len(unvisited) > 0 /\ FLt(totalTime, droneSpecs.maxFlightTime)

\* one pass of the while loop that selects a waypoint (lines 135-175)
SelectNext ==
  /\ pc = "loop"
  /\ LoopGuard
  /\ LET index == BestNext(unvisited, currentPosition, route[1], totalTime, droneSpecs)
     IN  /\ index # 0
         /\ LET bestNext == unvisited[index]
                distance == Distance(currentPosition.coordinate, bestNext.coordinate)
                time == LegTime(distance, droneSpecs.speed)
            IN  /\ route' = Append(route, bestNext)
                /\ currentPosition' = bestNext
                /\ totalTime' = AdvanceTime(totalTime, time)
                /\ totalDistance' = totalDistance + distance
                /\ unvisited' = RemoveAt(unvisited, index)
  /\ UNCHANGED <<missions, droneSpecs, pc, strategy, waypoints, routes, options,
                 outputs, entry, first, offline>>

\* the loop ends (guard false, or break at line 162); the route is closed,
\* measured and pushed (lines 177-182, 111-116, 239-246)
FinishRoute ==
  /\ pc = "loop"
  /\ \/ ~LoopGuard
     \/ BestNext(unvisited, currentPosition, route[1], totalTime, droneSpecs) = 0
  /\ LET optimizedWaypoints == CloseRoute(route, route[1])
         metrics == calculateRouteMetrics(optimizedWaypoints, droneSpecs)
     IN  /\ route' = optimizedWaypoints
         /\ routes' = Append(routes, RouteOf(optimizedWaypoints, metrics))
  /\ strategy' = strategy + 1
  /\ pc' = "options"
  /\ UNCHANGED <<missions, droneSpecs, waypoints, unvisited, currentPosition,
                 totalTime, totalDistance, options, outputs, entry, first, offline>>

\* line 248
SortOptions ==
  /\ pc = "options"
  /\ entry = "generateRouteOptions"
  /\ strategy = 3
  /\ options' = SortByEfficiency(routes)
  /\ pc' = "done"
  /\ UNCHANGED <<missions, droneSpecs, strategy, locals, routes, outputs, entry, first,
                 offline>>

\* the routes of the screen: generateRoutes sets none when there is no
\* mission, and the routes of generateRouteOptions otherwise
screenRoutes == IF Len(missions) = 0 THEN <<>> ELSE options

\* the dialog of a handler that offers the deployment of any route
DeployAlertUnchecked(result) == "Deploy Route"

\* the dialog handleDeployRoute shows for the result of validateRoute: the
\* failure and return, or the confirmation of the deployment
DeployAlert(result) ==
  IF ~result.valid THEN "Route Validation Failed" ELSE "Deploy Route"

\* handleDeployRoute of the screen for one of its routes: nothing when it
\* has no route, else validateRoute on the selected route with the
\* specifications of the call, and the dialog for its result
ValidateRoute ==
  /\ pc = "done"
  /\ IF Len(screenRoutes) = 0
     THEN UNCHANGED <<pc, selectedRouteIndex, validation, options, droneSpecs, alert>>
     ELSE /\ \E i \in 1..Len(screenRoutes) :
               LET after == ValidatedArguments(options[i], droneSpecs)
               IN  /\ selectedRouteIndex' = i
                   /\ validation' = validateRoute(options[i], droneSpecs)
                   /\ options' = [options EXCEPT ![i] = after.route]
                   /\ droneSpecs' = after.droneSpecs
          /\ alert' = DeployAlert(validation')
          /\ pc' = "validated"
  /\ UNCHANGED <<missions, strategy, locals, routes, instructions, startTime,
                 arrivalTimes, entry, first, offline>>

\* the button Deploy of the confirmation is pressed
Deploy ==
  /\ pc = "validated"
  /\ alert = "Deploy Route"
  /\ alert' = "Success"
  /\ pc' = "deployed"
  /\ UNCHANGED <<missions, droneSpecs, strategy, locals, routes, options,
                 selectedRouteIndex, validation, instructions, startTime,
                 arrivalTimes, entry, first, offline>>

\* renderRouteDetails of the screen on one of its routes:
\* generateNavigationInstructions and calculateArrivalTimes at new Date()
RenderRouteDetails ==
  /\ pc = "done"
  /\ \E i \in 1..Len(screenRoutes), start \in StartTimes :
       /\ selectedRouteIndex' = i
       /\ instructions' = generateNavigationInstructions(options[i])
       /\ startTime' = start
       /\ arrivalTimes' = calculateArrivalTimes(options[i], start)
  /\ pc' = "rendered"
  /\ UNCHANGED <<missions, droneSpecs, strategy, locals, routes, options,
                 validation, alert, entry, first, offline>>

Next ==
  \/ OptimizeRoute
  \/ SelectNext
  \/ FinishRoute
  \/ SortOptions
  \/ ValidateRoute
  \/ Deploy
  \/ RenderRouteDetails

Spec == Init /\ [][Next]_vars

(***************************************************************************)
(* Planning calls one after another.  After the first call of              *)
(* generateRouteOptions the caller calls it again, with the same inputs or *)
(* with others, or calls optimizeRoute itself on the list of one of the    *)
(* three strategies; the variables of the last call are as it left them.   *)
(***************************************************************************)
MaxCallMissions == 3

\* the missions of the first call: two at one place, with which the lists
\* of the strategies give different routes, and two elsewhere
CallMissionChoices ==
  {<<North, "low">>, <<North, "emergency">>, <<South, "medium">>, <<East, "emergency">>}

CallMissionLists(n) ==
  {[i \in 1..n |-> [id |-> MissionIds[i], target_location |-> f[i][1], priority |-> f[i][2]]] :
     f \in [1..n -> CallMissionChoices]}

CallMissionInputs == UNION {CallMissionLists(n) : n \in 0..MaxCallMissions}

\* the inputs of a call made between two calls of the same inputs
OtherCall ==
  [missions |-> <<[id |-> "m5", target_location |-> East, priority |-> "emergency"],
                  [id |-> "m6", target_location |-> South, priority |-> "medium"]>>,
   droneSpecs |-> Specs(50, 25, 60, 50)]

CallsInit ==
  /\ missions \in CallMissionInputs
  /\ droneSpecs \in DroneSpecsChoices
  /\ InitCall
  /\ OfflineInit

\* the first call as it has returned, once it has
FirstCall ==
  IF first.made THEN first
  ELSE [missions |-> missions, droneSpecs |-> droneSpecs, routes |-> routes,
        options |-> options, made |-> TRUE]

\* the caller calls generateRouteOptions (lines 229-233)
CallGenerateRouteOptions ==
  /\ pc = "done"
  /\ first' = FirstCall
  /\ \E call \in {[missions |-> first'.missions, droneSpecs |-> first'.droneSpecs],
                  OtherCall} :
       /\ missions' = call.missions
       /\ droneSpecs' = call.droneSpecs
  /\ entry' = "generateRouteOptions"
  /\ strategy' = 0
  /\ routes' = <<>>
  /\ options' = <<>>
  /\ pc' = "options"
  /\ UNCHANGED <<locals, outputs, offline>>

\* the caller calls optimizeRoute (lines 89-96) on the list that a strategy
\* of the first call was given: the call of line 245 alone
CallOptimizeRoute ==
  /\ pc = "done"
  /\ first' = FirstCall
  /\ \E n \in 1..3 : missions' = StrategyInput(n, first'.missions)
  /\ droneSpecs' = first'.droneSpecs
  /\ entry' = "optimizeRoute"
  /\ strategy' = 2
  /\ routes' = <<>>
  /\ options' = <<>>
  /\ pc' = "options"
  /\ UNCHANGED <<locals, outputs, offline>>

\* optimizeRoute returns to the caller (lines 100-108, 113-116)
ReturnRoute ==
  /\ pc = "options"
  /\ entry = "optimizeRoute"
  /\ strategy = 3
  /\ options' = routes
  /\ pc' = "done"
  /\ UNCHANGED <<missions, droneSpecs, strategy, locals, routes, outputs, entry, first,
                 offline>>

CallsNext ==
  \/ OptimizeRoute
  \/ SelectNext
  \/ FinishRoute
  \/ SortOptions
  \/ ReturnRoute
  \/ CallGenerateRouteOptions
  \/ CallOptimizeRoute

CallsSpec == CallsInit /\ [][CallsNext]_vars

(***************************************************************************)
(* The offline queue of OfflineDataManager (src/unnamed/part_004): calls   *)
(* of queueOfflineAction, one for each action, and runs of                 *)
(* processOfflineQueue, interleaved at their awaits.                       *)
(*   storage   the value of AsyncStorage under 'arjuna_offline_queue'      *)
(*   calls[a]  the call of queueOfflineAction for action a: idle, at the   *)
(*             await of getItem with the value read, or done               *)
(*   sync      the run of processOfflineQueue: its queue, the index of the *)
(*             next action, and the number of runs started                 *)
(*   handed    the actions passed to processOfflineAction, in order        *)
(*   queued    the actions whose queueOfflineAction has stored them, in    *)
(*             the order of their setItem                                  *)
(***************************************************************************)
QueueInit ==
  /\ missions = <<>>
  /\ droneSpecs = DefaultDroneSpecs
  /\ InitCall
  /\ OfflineInit

\* queueOfflineAction is called and getItem reads the key (lines 153-160)
QueueOfflineAction(a) ==
  /\ calls[a].pc = "idle"
  /\ calls' = [calls EXCEPT ![a] = [pc |-> "getItem", existingQueue |-> storage]]
  /\ UNCHANGED <<storage, sync, handed, queued, planning>>

\* the call goes on after the await: the action is pushed on the queue that
\* was read and the queue is stored (lines 161-165)
QueueSetItem(a) ==
  /\ calls[a].pc = "getItem"
  /\ LET existingQueue == calls[a].existingQueue
         queue == IF existingQueue # Null THEN JSONparse(existingQueue) ELSE <<>>
     IN  storage' = JSONstringify(Append(queue, OfflineAction(a)))
  /\ queued' = Append(queued, OfflineAction(a))
  /\ calls' = [calls EXCEPT ![a].pc = "done"]
  /\ UNCHANGED <<sync, handed, planning>>

\* processOfflineQueue is called and getItem reads the key; it returns when
\* there is no value (lines 172-180)
ProcessOfflineQueue ==
  /\ sync.pc = "idle"
  /\ sync.runs < MaxSyncs
  /\ sync' = IF storage = Null
             THEN [sync EXCEPT !.runs = @ + 1]
             ELSE [pc |-> "loop", queue |-> JSONparse(storage), next |-> 1,
                   runs |-> sync.runs + 1]
  /\ UNCHANGED <<storage, calls, handed, queued, planning>>

\* one pass of the for loop: the next action of the queue that was read is
\* passed to processOfflineAction (lines 182-188)
ProcessOfflineAction ==
  /\ sync.pc = "loop"
  /\ sync.next <= Len(sync.queue)
  /\ handed' = Append(handed, sync.queue[sync.next])
  /\ sync' = [sync EXCEPT !.next = @ + 1]
  /\ UNCHANGED <<storage, calls, queued, planning>>

\* after the loop the key is removed (lines 190-192)
RemoveQueue ==
  /\ sync.pc = "loop"
  /\ sync.next > Len(sync.queue)
  /\ storage' = Null
  /\ sync' = [sync EXCEPT !.pc = "idle", !.queue = <<>>, !.next = 1]
  /\ UNCHANGED <<calls, handed, queued, planning>>

QueueNext ==
  \/ \E a \in 1..MaxActions : QueueOfflineAction(a)
  \/ \E a \in 1..MaxActions : QueueSetItem(a)
  \/ ProcessOfflineQueue
  \/ ProcessOfflineAction
  \/ RemoveQueue

QueueSpec == QueueInit /\ [][QueueNext]_vars

(***************************************************************************)
(* Properties.                                                             *)
(***************************************************************************)
\* the routes returned so far by optimizeRoute and by generateRouteOptions
Returned == {routes[i] : i \in DOMAIN routes} \cup {options[i] : i \in DOMAIN options}

First(ws) == ws[1]
Last(ws) == ws[Len(ws)]

DeliveryIndices(ws) == {i \in DOMAIN ws : ws[i].type = "delivery"}

\* the mission passes the test of lines 143-149 at the base, before any leg
FeasibleFromBase(mission) ==
  LET w == missionsToWaypoints(<<mission>>)[2]
  IN  ~CannotReturn(w, baseWaypoint, baseWaypoint, 0, droneSpecs)

SomeFeasibleFromBase == \E i \in DOMAIN missions : FeasibleFromBase(missions[i])

\* C1 (closure): every returned route starts with the base waypoint, and
\* when the mission list is not empty and some mission passes the return test
\* at the base, the route also ends with the base waypoint.
C1_Closure ==
  \A r \in Returned :
    /\ Len(r.waypoints) >= 1
    /\ First(r.waypoints).type = "base"
    /\ (Len(missions) > 0 /\ SomeFeasibleFromBase) => Last(r.waypoints).type = "base"

\* a returned route that visits a delivery although a mission is feasible
\* from the base, and comes back
C1_Witness ==
  \E r \in Returned :
    /\ SomeFeasibleFromBase
    /\ Len(r.waypoints) >= 3
    /\ r.waypoints[2].type = "delivery"
    /\ Last(r.waypoints).type = "base"

\* C2 (no duplication): in every returned route each delivery waypoint's
\* missionId is the id of exactly one mission of the call, and no two delivery
\* waypoints of a route have the same missionId.
C2_NoDuplication ==
  \A r \in Returned :
    \A i \in DeliveryIndices(r.waypoints) :
      /\ Cardinality({m \in DOMAIN missions :
                        missions[m].id = r.waypoints[i].missionId}) = 1
      /\ \A j \in DeliveryIndices(r.waypoints) :
           r.waypoints[j].missionId = r.waypoints[i].missionId => j = i

\* a returned route with two delivery waypoints
C2_Witness ==
  \E r \in Returned : Cardinality(DeliveryIndices(r.waypoints)) >= 2

\* the minutes from the start to the end of the delivery at waypoint k: the
\* legs flown and 5 minutes for each delivery made, waypoint k included
ElapsedAt(ws, k) == SumTime(ws, 1, k, 0, droneSpecs.speed)

\* the minutes of the direct leg from waypoint k back to the base
ReturnTimeFrom(ws, k) ==
  LegTime(Distance(ws[k].coordinate, BASE_LOCATION), droneSpecs.speed)

\* C3 (feasibility respected): for every delivery waypoint k of a returned
\* route, the elapsed minutes on reaching k (leg times plus 5 minutes per
\* delivery) plus the minutes of a direct return from k to the base do not
\* exceed maxFlightTime.
C3_FeasibilityRespected ==
  \A r \in Returned :
    \A k \in DeliveryIndices(r.waypoints) :
      FGe(droneSpecs.maxFlightTime,
          FAdd(ElapsedAt(r.waypoints, k), ReturnTimeFrom(r.waypoints, k)))

\* C4 (efficiency is delivered versus requested): a returned route for a
\* non-empty mission list has efficiency 100 * deliveries / missions, so a
\* route that leaves a mission out has an efficiency below 100.
C4_EfficiencyRatio ==
  \A r \in Returned :
    Len(missions) > 0 =>
      /\ r.efficiency =
           RoundDiv(Cardinality(DeliveryIndices(r.waypoints)) * 100 * EffScale,
                    Len(missions))
      /\ Cardinality(DeliveryIndices(r.waypoints)) < Len(missions)
           => FLt(r.efficiency, 100 * EffScale)

\* C5 (efficiency bound): every returned route has 0 <= efficiency <= 100.
C5_EfficiencyBound ==
  \A r \in Returned :
    FGe(r.efficiency, 0) /\ FGe(100 * EffScale, r.efficiency)

\* a returned route that makes a delivery and leaves a mission out
C5_Witness ==
  \E r \in Returned :
    /\ Cardinality(DeliveryIndices(r.waypoints)) >= 1
    /\ Cardinality(DeliveryIndices(r.waypoints)) < Len(missions)

Returns == pc \in {"done", "validated"}

\* C6 (strategy ranking): the list returned by generateRouteOptions is in
\* the order of non-increasing efficiency.
C6_RankedByEfficiency ==
  Returns =>
    \A i \in 1..(Len(options) - 1) :
      FGe(options[i].efficiency, options[i + 1].efficiency)

\* generateRouteOptions has returned the routes of its three strategies, of
\* which the first does not visit the waypoints in the order of the last
C6_Witness ==
  /\ Returns
  /\ Len(options) = 3
  /\ options[1].waypoints # options[3].waypoints

InvalidSpecs ==
  \/ droneSpecs.maxFlightTime <= 0
  \/ droneSpecs.speed <= 0
  \/ droneSpecs.maxRange <= 0

\* C7 (configuration errors are surfaced): with a non-positive
\* maxFlightTime, speed or maxRange the call ends before any construction
\* step: no strategy is run and no route is returned.
C7_ConfigurationError ==
  InvalidSpecs =>
    /\ pc = "options"
    /\ strategy = 0
    /\ routes = <<>>
    /\ options = <<>>

\* C8 (no feasible target): when the mission list is not empty and no
\* mission passes the return test at the base, a returned route is
\* <<base, base>>, has no delivery waypoint and has efficiency 0.
C8_NoFeasibleTarget ==
  (Len(missions) > 0 /\ ~SomeFeasibleFromBase) =>
    \A r \in Returned :
      /\ r.waypoints = <<baseWaypoint, baseWaypoint>>
      /\ DeliveryIndices(r.waypoints) = {}
      /\ r.efficiency = 0

\* C9 (empty mission list): optimizeRoute of no missions returns the
\* waypoints <<base>> or <<base, base>>, total distance 0, total time 0 and
\* efficiency 100.
C9_EmptyList ==
  Len(missions) = 0 =>
    \A r \in Returned :
      /\ r.waypoints \in {<<baseWaypoint>>, <<baseWaypoint, baseWaypoint>>}
      /\ r.totalDistance = 0
      /\ r.totalTime = 0
      /\ r.efficiency = 100 * EffScale

\* optimizeRoute has returned for the caller's empty list
C9_Witness == Len(missions) = 0 /\ Len(routes) = 3

\* the only mission's round trip with its delivery fits maxFlightTime, its
\* round-trip distance is within maxRange, and the battery is full
SingleReachable ==
  /\ Len(missions) = 1
  /\ droneSpecs.batteryCapacity = 100
  /\ LET distance == Distance(BASE_LOCATION, missions[1].target_location)
         time == LegTime(distance, droneSpecs.speed)
     IN  /\ FGe(droneSpecs.maxFlightTime, FAdd(FAdd(time, time), DeliveryTime))
         /\ 2 * distance <= droneSpecs.maxRange

Range(seq) == {seq[i] : i \in DOMAIN seq}

\* the route that validateRoute, generateNavigationInstructions and
\* calculateArrivalTimes were called on
selectedRoute == options[selectedRouteIndex]

\* C11 (validator result): validateRoute reports a distance issue iff
\* totalDistance > maxRange, a time issue iff totalTime > maxFlightTime and a
\* fuel issue iff fuelConsumption > batteryCapacity; it reports nothing else
\* and nothing twice, and valid is true iff the list of issues is empty.  The
\* result is a value returned to the caller.
C11_ValidatorResult ==
  pc = "validated" =>
    /\ "distance" \in Range(validation.issues)
         <=> FGt(selectedRoute.totalDistance, droneSpecs.maxRange)
    /\ "time" \in Range(validation.issues)
         <=> FGt(selectedRoute.totalTime, droneSpecs.maxFlightTime)
    /\ "fuel" \in Range(validation.issues)
         <=> FGt(selectedRoute.fuelConsumption, droneSpecs.batteryCapacity)
    /\ Range(validation.issues) \subseteq {"distance", "time", "fuel"}
    /\ Cardinality(Range(validation.issues)) = Len(validation.issues)
    /\ validation.valid \in BOOLEAN
    /\ validation.valid <=> validation.issues = <<>>

\* validateRoute has reported a route whose fuel is exactly the battery
\* capacity for its time, and not for its fuel
C11_Witness ==
  /\ pc = "validated"
  /\ validation.issues = <<"time">>
  /\ selectedRoute.fuelConsumption = droneSpecs.batteryCapacity

\* C12 (validator is read-only): a call of validateRoute leaves the routes
\* (waypoints and the four totals of each) and the drone specifications as
\* they were, whether or not it reports an issue.
C12_ValidatorReadOnly ==
  [][(pc = "done" /\ pc' = "validated")
       => (options' = options /\ routes' = routes /\ droneSpecs' = droneSpecs)]_vars

\* validateRoute has reported an issue of a route
C12_Witness ==
  /\ pc = "validated"
  /\ ~validation.valid
  /\ "time" \in Range(validation.issues)
  /\ FGt(selectedRoute.totalTime, droneSpecs.maxFlightTime)

\* the minutes a route takes: the travel time of its legs and 5 minutes for
\* each delivery waypoint, before any rounding
ActualDuration(ws) == SumTime(ws, 1, Len(ws), 0, droneSpecs.speed)

\* C13 (over-endurance routes are flagged, not truncated): every returned
\* route that visits a delivery ends with the leg back to the base, and when
\* its actual duration exceeds maxFlightTime, validateRoute with the
\* specifications of the call returns valid = false with a time issue.
C13_OverEnduranceFlagged ==
  \A r \in Returned :
    /\ DeliveryIndices(r.waypoints) # {} => Last(r.waypoints).type = "base"
    /\ FGt(ActualDuration(r.waypoints), droneSpecs.maxFlightTime)
         => /\ ~validateRoute(r, droneSpecs).valid
            /\ "time" \in Range(validateRoute(r, droneSpecs).issues)

\* the great-circle distances of the consecutive pairs of ws from the pair
\* (i, i + 1) on, the last pair included, in metres
RECURSIVE GreatCircleSum(_, _)
GreatCircleSum(ws, i) ==
  IF i + 1 > Len(ws) THEN 0
  ELSE Distance(ws[i].coordinate, ws[i + 1].coordinate)
         + GreatCircleSum(ws, i + 1)

\* half a unit of the second decimal of a kilometre, in metres
RoundingTolerance == (KmScale \div 100) \div 2

\* C14 (distance total): the totalDistance of every returned route is the sum
\* of the great-circle distances of its consecutive waypoint pairs, the closing
\* leg to the base included, to within the rounding to 0.01 km.
C14_DistanceTotal ==
  \A r \in Returned :
    /\ r.totalDistance - GreatCircleSum(r.waypoints, 1) <= RoundingTolerance
    /\ GreatCircleSum(r.waypoints, 1) - r.totalDistance <= RoundingTolerance

\* a returned route of two deliveries at two places and the leg back
C14_Witness ==
  \E r \in Returned :
    /\ Len(r.waypoints) = 4
    /\ Last(r.waypoints).type = "base"
    /\ r.waypoints[2].coordinate # r.waypoints[3].coordinate
    /\ r.totalDistance > 0

\* C15 (instruction count): generateNavigationInstructions returns
\* length - 1 instructions for the waypoints of the route, the k-th for the
\* pair (k, k + 1): it names that pair's destination and distance and one of
\* the eight directions, and it says Return for a leg to the base and Proceed
\* for a leg to a delivery.
C15_InstructionCount ==
  pc = "rendered" =>
    LET ws == selectedRoute.waypoints
    IN  /\ Len(instructions) = Len(ws) - 1
        /\ \A k \in DOMAIN instructions :
             /\ instructions[k].direction
                  \in {"N", "NE", "E", "SE", "S", "SW", "W", "NW"}
             /\ instructions[k].distance
                  = ToFixed1(Distance(ws[k].coordinate, ws[k + 1].coordinate))
             /\ ws[k + 1].type = "delivery"
                  => /\ instructions[k].verb = "Proceed"
                     /\ instructions[k].id = ws[k + 1].id
             /\ ws[k + 1].type = "base"
                  => /\ instructions[k].verb = "Return"
                     /\ instructions[k].destination = "base"
             /\ instructions[k].verb \in {"Proceed", "Return"}

\* the instructions of a route of two deliveries, one of them for a leg to
\* the south-east, and a return
C15_Witness ==
  /\ pc = "rendered"
  /\ Len(selectedRoute.waypoints) = 4
  /\ Len(instructions) = 3
  /\ instructions[3].verb = "Return"
  /\ \E k \in 1..2 : instructions[k].direction = "SE"

\* C16 (arrival times): calculateArrivalTimes returns one time for each
\* waypoint; the first is startTime; each later one is the one before plus
\* the leg's distance over the speed of the drone specifications plus, for
\* a delivery waypoint, the 5 minutes of the delivery; so no time is earlier
\* than the one before.
C16_ArrivalTimes ==
  pc = "rendered" =>
    LET ws == selectedRoute.waypoints
    IN  /\ Len(arrivalTimes) = Len(ws)
        /\ arrivalTimes[1] = startTime
        /\ \A k \in 1..(Len(ws) - 1) :
             LET distance == Distance(ws[k].coordinate, ws[k + 1].coordinate)
                 travelTime == LegTime(distance, droneSpecs.speed)
                 deliveryTime == IF ws[k + 1].type = "delivery" THEN DeliveryTime ELSE 0
             IN  /\ arrivalTimes[k + 1] = arrivalTimes[k] + Millis(travelTime + deliveryTime)
                 /\ arrivalTimes[k + 1] >= arrivalTimes[k]

\* a pass of the while loop has just appended a waypoint to the route
Selected == pc = "loop" /\ Len(route) >= 2

\* the waypoint the last pass appended, the position it was chosen at, the
\* elapsed time of the construction at that choice, and the waypoints that
\* were unvisited then
chosen == route[Len(route)]
chosenAt == route[Len(route) - 1]
elapsedBefore ==
  totalTime - LegTime(Distance(chosenAt.coordinate, chosen.coordinate), droneSpecs.speed)
candidates == Range(unvisited) \cup {chosen}

\* the waypoint passed the test of lines 143-149 at that choice
FeasibleThen(w) == ~CannotReturn(w, chosenAt, route[1], elapsedBefore, droneSpecs)

\* a list of three missions at one distance from the base, of priorities
\* low (1), medium (2) and emergency (4)
EquidistantTriple ==
  /\ Len(missions) = 3
  /\ \A i, j \in 1..3 :
       Distance(BASE_LOCATION, missions[i].target_location)
         = Distance(BASE_LOCATION, missions[j].target_location)
  /\ {missions[i].priority : i \in 1..3} = {"low", "medium", "emergency"}

\* the positions in ws of the delivery waypoints of the given priority
PositionsOf(ws, priority) == {k \in DeliveryIndices(ws) : ws[k].priority = priority}

\* C17 (priority preference at equal distance): in the construction of the
\* priority-first strategy, the waypoint chosen has a priority at least that
\* of every feasible unvisited waypoint at the same distance from the
\* current position; and of three missions at one distance from the base
\* with priorities 1, 2 and 4, the route of the priority-first strategy
\* visits the one of priority 4 before the one of priority 1.
C17_PriorityPreference ==
  /\ (Selected /\ entry = "generateRouteOptions" /\ strategy = 0) =>
       \A u \in Range(unvisited) :
         (FeasibleThen(u)
            /\ Distance(chosenAt.coordinate, u.coordinate)
                 = Distance(chosenAt.coordinate, chosen.coordinate))
           => chosen.priority >= u.priority
  /\ (EquidistantTriple /\ Len(routes) >= 1) =>
       \A low \in PositionsOf(routes[1].waypoints, 1) :
         \E high \in PositionsOf(routes[1].waypoints, 4) : high < low

\* the priority-first route of three missions at one distance from the base
\* visits all three, the mission of priority 4 first
C17_Witness ==
  /\ EquidistantTriple
  /\ Len(routes) >= 1
  /\ Cardinality(DeliveryIndices(routes[1].waypoints)) = 3
  /\ routes[1].waypoints[2].priority = 4
  /\ missions[1].priority = "low"

\* a call of generateRouteOptions with the inputs of the first call has
\* returned
Repeated ==
  /\ pc = "done"
  /\ first.made
  /\ entry = "generateRouteOptions"
  /\ missions = first.missions
  /\ droneSpecs = first.droneSpecs

CallCoordinates ==
  {BASE_LOCATION} \cup {missions[i].target_location : i \in DOMAIN missions}

\* C19 (distance symmetry): for all coordinates a and b of a call,
\* calculateDistance(a, b) = calculateDistance(b, a) and
\* calculateDistance(a, a) = 0.
C19_DistanceSymmetry ==
  \A a, b \in CallCoordinates :
    /\ Distance(a, b) = Distance(b, a)
    /\ Distance(a, a) = 0

\* a route has been measured whose two deliveries differ in latitude and in
\* longitude
C19_Witness ==
  \E r \in Returned :
    /\ Len(r.waypoints) >= 4
    /\ r.waypoints[2].coordinate.latitude # r.waypoints[3].coordinate.latitude
    /\ r.waypoints[2].coordinate.longitude # r.waypoints[3].coordinate.longitude
    /\ Distance(r.waypoints[2].coordinate, r.waypoints[3].coordinate) > 0

\* at the last choice, the flight to w and from w back to the base fitted
\* in maxFlightTime: the elapsed time and the two travel times do not exceed it
CouldReturnFrom(w) ==
  LET time == LegTime(Distance(chosenAt.coordinate, w.coordinate), droneSpecs.speed)
      returnTime == LegTime(Distance(w.coordinate, route[1].coordinate), droneSpecs.speed)
  IN  ~FGt(FAdd(FAdd(elapsedBefore, time), returnTime), droneSpecs.maxFlightTime)

\* legDistance * (weightCeiling - priorityRank) at the last choice
WeightedScore(w, weightCeiling) ==
  Distance(chosenAt.coordinate, w.coordinate) * (weightCeiling - w.priority)

\* the waypoint chosen could return, and no unvisited waypoint that could
\* return had a smaller score
SelectionRule(weightCeiling) ==
  Selected =>
    /\ CouldReturnFrom(chosen)
    /\ \A u \in Range(unvisited) :
         CouldReturnFrom(u)
           => WeightedScore(chosen, weightCeiling) <= WeightedScore(u, weightCeiling)

\* the highest rank getPriorityValue returns
MaxPriorityRank == getPriorityValue("emergency")

\* C20 as stated (selection rule): the waypoint appended by a pass of the
\* loop could return to the base and minimises
\* legDistance * (weightCeiling - priorityRank) over the unvisited waypoints
\* that could, with weightCeiling one greater than the highest rank, 5.
C20_SelectionRuleCeilingFive == SelectionRule(MaxPriorityRank + 1)

\* C20 as amended (selection rule): the waypoint appended by a pass of the
\* loop could return to the base and minimises
\* legDistance * (weightCeiling - priorityRank) over the unvisited waypoints
\* that could, with weightCeiling 6, two greater than the highest rank; a
\* waypoint that could not return is never appended.
C20_SelectionRule == SelectionRule(MaxPriorityRank + 2)

\* a pass has appended a waypoint of a higher priority although a nearer one
\* could return, and has left aside one that could not
C20_Witness ==
  /\ Selected
  /\ \E u \in Range(unvisited) :
       /\ CouldReturnFrom(u)
       /\ u.priority < chosen.priority
       /\ Distance(chosenAt.coordinate, u.coordinate)
            < Distance(chosenAt.coordinate, chosen.coordinate)
  /\ \E u \in Range(unvisited) : ~CouldReturnFrom(u)

\* C21 (elapsed-time accounting in the constructor): while the route is
\* built, the elapsed minutes of the constructor, which the next return test
\* and the loop guard read, are the evaluator's duration of the route built
\* so far: the travel minutes of its legs plus 5 minutes for each delivery
\* waypoint selected.
C21_ElapsedAccounting ==
  pc = "loop" => totalTime = SumTime(route, 1, Len(route), 0, droneSpecs.speed)

\* the waypoints of unv that pass the return test at the position current
\* after elapsed minutes, by their indices
FeasibleAt(unv, current, elapsed) ==
  {i \in DOMAIN unv : ~CannotReturn(unv[i], current, baseWaypoint, elapsed, droneSpecs)}

\* no pass of the construction over unv, from current after elapsed minutes
\* on, finds two feasible unvisited waypoints of one score
RECURSIVE TieFree(_, _, _)
TieFree(unv, current, elapsed) ==
  IF ~(Len(unv) > 0 /\ FLt(elapsed, droneSpecs.maxFlightTime)) THEN TRUE
  ELSE LET feasible == FeasibleAt(unv, current, elapsed)
       IN  IF feasible = {} THEN TRUE
           ELSE /\ \A i, j \in feasible :
                     i # j => Score(unv[i], current) # Score(unv[j], current)
                /\ LET best == CHOOSE i \in feasible :
                                 \A j \in feasible :
                                   Score(unv[i], current) <= Score(unv[j], current)
                       time == LegTime(Distance(current.coordinate, unv[best].coordinate),
                                       droneSpecs.speed)
                   IN  TieFree(RemoveAt(unv, best), unv[best], FAdd(elapsed, time))

\* the construction on the list of each of the three strategies is tie-free
TieFreeCall ==
  \A n \in 1..3 :
    TieFree(FilterType(missionsToWaypoints(StrategyInput(n, missions)), NotBase),
            baseWaypoint, 0)

\* the place of the waypoint w in the list fed to the constructor
IndexIn(ws, w) == CHOOSE i \in DOMAIN ws : ws[i] = w

\* C22 (input order matters only through ties): when no construction step
\* of the call has two feasible unvisited waypoints of one score, the three
\* strategies return the same waypoint sequence; and the waypoint a pass
\* selects comes, in the list fed to the constructor, before every feasible
\* unvisited waypoint of the same score.
C22_OrderOnlyThroughTies ==
  /\ (pc = "options" /\ Len(routes) = 3 /\ TieFreeCall) =>
       /\ routes[1].waypoints = routes[3].waypoints
       /\ routes[2].waypoints = routes[3].waypoints
  /\ Selected =>
       \A u \in Range(unvisited) :
         (FeasibleThen(u)
            /\ Score(u, chosenAt) = Score(chosen, chosenAt))
           => IndexIn(waypoints, chosen) < IndexIn(waypoints, u)

\* the three strategies were fed three different orders of three missions,
\* no step had a tie, and the routes deliver to all three
C22_Witness ==
  /\ pc = "options"
  /\ Len(routes) = 3
  /\ Len(missions) = 3
  /\ TieFreeCall
  /\ StrategyInput(1, missions) # missions
  /\ StrategyInput(2, missions) # missions
  /\ StrategyInput(1, missions) # StrategyInput(2, missions)
  /\ Cardinality(DeliveryIndices(routes[3].waypoints)) = 3

\* the missions of the delivery waypoints of the list fed to the
\* constructor, in its order
FedMissions ==
  [k \in 1..(Len(waypoints) - 1) |->
     CHOOSE m \in Range(missions) : m.id = waypoints[k + 1].missionId]

\* the list fed to the constructor has the missions of the caller, each once
FedAll ==
  /\ Len(waypoints) = Len(missions) + 1
  /\ {waypoints[k].missionId : k \in 2..Len(waypoints)}
       = {missions[i].id : i \in DOMAIN missions}

\* C23 (the caller's targets are not mutated): no step of
\* generateRouteOptions changes the caller's mission list, in order or in
\* contents; the list fed to the constructor by the priority-first strategy
\* is the missions in descending priority rank, the list of the
\* proximity-first strategy is the missions in ascending distance from the
\* base, and the list of the mixed strategy is the caller's list in the
\* caller's order.
C23_TargetsNotMutated ==
  /\ [][missions' = missions]_vars
  /\ [](pc = "loop" =>
          /\ FedAll
          /\ strategy = 0 =>
               \A i, j \in DOMAIN FedMissions :
                 i < j => getPriorityValue(FedMissions[i].priority)
                            >= getPriorityValue(FedMissions[j].priority)
          /\ strategy = 1 =>
               \A i, j \in DOMAIN FedMissions :
                 i < j => Distance(BASE_LOCATION, FedMissions[i].target_location)
                            <= Distance(BASE_LOCATION, FedMissions[j].target_location)
          /\ strategy = 2 => waypoints = missionsToWaypoints(missions))

\* the mixed strategy is constructing for a list of three missions that is
\* in the order neither of the priorities nor of the distances
C23_Witness ==
  /\ pc = "loop"
  /\ strategy = 2
  /\ Len(missions) = 3
  /\ StrategyInput(1, missions) # missions
  /\ StrategyInput(2, missions) # missions
  /\ Len(routes) = 2

\* the minutes of the legs of ws from the pair (i, i + 1) on, at the cruise
\* speed of the specifications, and 5 minutes for each leg that ends at a
\* delivery waypoint
RECURSIVE TravelAndDwell(_, _)
TravelAndDwell(ws, i) ==
  IF i + 1 > Len(ws) THEN 0
  ELSE FAdd(FAdd(LegTime(Distance(ws[i].coordinate, ws[i + 1].coordinate),
                         droneSpecs.speed),
                 IF ws[i + 1].type = "delivery" THEN 5 * MinScale ELSE 0),
            TravelAndDwell(ws, i + 1))

\* the route optimizeRoute has just returned, in the state of its return
JustReturned == IF pc = "options" /\ Len(routes) > 0 THEN {routes[Len(routes)]} ELSE {}

\* C24 (duration total): the totalTime of every returned route is the sum
\* over its consecutive waypoint pairs of distance / speed * 60, plus 5
\* minutes for each delivery waypoint and nothing for a base waypoint, to
\* within the rounding to the minute.
C24_DurationTotal ==
  \A r \in JustReturned :
    LET duration == TravelAndDwell(r.waypoints, 1)
    IN  IF IsFinite(duration)
        THEN /\ IsFinite(r.totalTime)
             /\ 2 * Abs(r.totalTime - duration) <= MinScale
        ELSE r.totalTime = duration

\* a returned route of two deliveries and the leg back, flown at a speed
\* that is not the default
C24_Witness ==
  \E r \in Returned :
    /\ droneSpecs.speed # DEFAULT_DRONE_SPEED
    /\ Cardinality(DeliveryIndices(r.waypoints)) = 2
    /\ Len(r.waypoints) = 4
    /\ r.totalTime > 2 * 5 * MinScale

\* C25 (resource consumption): the fuelConsumption of every returned route
\* is min(100, duration / maxFlightTime * batteryCapacity) to within the
\* rounding to the unit, for the duration of C24 before its rounding, and it
\* never exceeds 100.
C25_ResourceConsumption ==
  \A r \in JustReturned :
    /\ ~FGt(r.fuelConsumption, 100)
    /\ LET duration == TravelAndDwell(r.waypoints, 1)
           max == droneSpecs.maxFlightTime
           bat == droneSpecs.batteryCapacity
       IN  (IsFinite(duration) /\ max > 0) =>
             IF duration * bat >= 100 * max
             THEN r.fuelConsumption = 100
             ELSE 2 * Abs(r.fuelConsumption * max - duration * bat) <= max

\* a returned route whose duration over maxFlightTime times the capacity is
\* more than 100, and whose fuelConsumption is 100
C25_Witness ==
  \E r \in Returned :
    /\ droneSpecs.maxFlightTime > 0
    /\ IsFinite(TravelAndDwell(r.waypoints, 1))
    /\ TravelAndDwell(r.waypoints, 1) * droneSpecs.batteryCapacity
         > 100 * droneSpecs.maxFlightTime
    /\ r.fuelConsumption = 100
    /\ DeliveryIndices(r.waypoints) # {}

\* the missions of the waypoints of ws that are not the base
MissionsOf(ws) == {ws[k].missionId : k \in {j \in DOMAIN ws : ws[j].type # "base"}}

\* C27 (construction terminates): after k passes of the while loop the route
\* has k delivery waypoints and the unvisited list has n - k waypoints, n the
\* number of missions: a pass that does not break removes exactly the
\* waypoint it appends, so there are at most n passes, and a returned route
\* has at most n delivery waypoints.
C27_ConstructionTerminates ==
  /\ pc = "loop" =>
       /\ (Len(route) - 1) + Len(unvisited) = Len(missions)
       /\ Len(route) - 1 <= Len(missions)
       /\ MissionsOf(route) \cap MissionsOf(unvisited) = {}
       /\ Cardinality(MissionsOf(route) \cup MissionsOf(unvisited)) = Len(missions)
  /\ \A r \in JustReturned :
       Cardinality(DeliveryIndices(r.waypoints)) <= Len(missions)

\* the loop has made as many passes as there are missions, three, and
\* nothing is left unvisited
C27_Witness ==
  /\ pc = "loop"
  /\ Len(missions) = 3
  /\ Len(route) = 4
  /\ Len(unvisited) = 0

\* C28 (greedy maximality): when the constructor has stopped with waypoints
\* unvisited and its elapsed time below maxFlightTime, for each of them the
\* elapsed time plus the leg from the last position plus the return to the
\* base exceeds maxFlightTime.
C28_GreedyMaximality ==
  (pc = "options" /\ Len(unvisited) > 0 /\ FLt(totalTime, droneSpecs.maxFlightTime)) =>
    \A u \in Range(unvisited) :
      LET leg == LegTime(Distance(currentPosition.coordinate, u.coordinate),
                         droneSpecs.speed)
          back == LegTime(Distance(u.coordinate, BASE_LOCATION), droneSpecs.speed)
      IN  FGt(FAdd(FAdd(totalTime, leg), back), droneSpecs.maxFlightTime)

\* the constructor has stopped after a delivery, before maxFlightTime, and
\* has left a waypoint unvisited
C28_Witness ==
  /\ pc = "options"
  /\ strategy >= 1
  /\ Len(unvisited) > 0
  /\ FLt(totalTime, droneSpecs.maxFlightTime)
  /\ Len(route) >= 3
  /\ totalTime > 0

\* C29 (timing consistency between evaluator and navigation): the last
\* time of calculateArrivalTimes minus startTime is the totalTime of the
\* route, to within the rounding to the minute, whatever the speed of the
\* specifications the route was planned with.
C29_TimingConsistency ==
  pc = "rendered" =>
    /\ IsFinite(selectedRoute.totalTime)
    /\ 2 * Abs((Last(arrivalTimes) - startTime) - Millis(selectedRoute.totalTime))
         <= MillisPerMinute

\* C26 (deployment gate): the confirmation of the deployment, and the
\* deployment after it, are on the screen only when validateRoute on the
\* selected route with the current specifications has returned valid; when
\* it has reported an issue the dialog is the failure and no deployment is
\* offered; and with no routes handleDeployRoute changes nothing.
C26_DeploymentGate ==
  /\ alert \in {"Deploy Route", "Success"} =>
       /\ pc \in {"validated", "deployed"}
       /\ validation = validateRoute(selectedRoute, droneSpecs)
       /\ validation.valid
       /\ validation.issues = <<>>
  /\ (pc = "validated" /\ ~validation.valid) => alert = "Route Validation Failed"
  /\ alert = "Route Validation Failed" =>
       /\ pc = "validated"
       /\ validation = validateRoute(selectedRoute, droneSpecs)
       /\ validation.issues # <<>>
  /\ pc = "deployed" => alert = "Success"
  /\ Len(screenRoutes) = 0 =>
       /\ alert = NoAlert
       /\ validation = NoValidation
       /\ pc \notin {"validated", "deployed"}

\* the deployment of a route with a delivery was confirmed, for
\* specifications under which another of the routes could have failed
C26_Witness ==
  /\ pc = "deployed"
  /\ alert = "Success"
  /\ DeliveryIndices(selectedRoute.waypoints) # {}
  /\ droneSpecs # DefaultDroneSpecs

\* the queue under the key
StoredQueue == IF storage = Null THEN <<>> ELSE JSONparse(storage)

\* the place of the action in the order of queueing
QueuedAt(action) == CHOOSE k \in DOMAIN queued : queued[k] = action

\* C30 (the offline queue loses no action): every action stored by
\* queueOfflineAction is in the stored queue or has been handed to
\* processOfflineAction, in every interleaving of the calls of
\* queueOfflineAction with the runs of processOfflineQueue; and the actions
\* are handed in the order they were queued.
C30_NoActionLost ==
  /\ \A action \in Range(queued) :
       action \in Range(StoredQueue) \/ action \in Range(handed)
  /\ \A i, j \in DOMAIN handed :
       (i < j /\ handed[i] \in Range(queued) /\ handed[j] \in Range(queued))
         => QueuedAt(handed[i]) <= QueuedAt(handed[j])

=============================================================================
